---- MODULE Spec2Model ----
\* Model of src/src/utils/excel-processor.ts: parseDate and processExcelData,
\* the spreadsheet-to-timeseries normalizer of the blood-test dashboard.
\*
\* Strings are sequences of one-character strings, so that includes('/'),
\* split('/'), parseInt, parseFloat, toString and the template literal of
\* parseDate are computed, not assumed.  A cell of the decoded sheet is a
\* tagged record [t, s, n]: t is the JavaScript type of the cell, s its
\* characters (strings), n its number (numbers) or its day (Date objects).
EXTENDS Integers, Sequences, FiniteSets, TLC

VARIABLES rawData, pc, dateColumns, rowIndex, params, testData, units,
          categories, chartData, calculatedMetrics, error, result

vars == <<rawData, pc, dateColumns, rowIndex, params, testData, units,
          categories, chartData, calculatedMetrics, error, result>>

----------------------------------------------------------------------------
\* Bounds of the model.

\* Largest number of date columns (header cells at index >= 2) of a sheet.
MaxCols == 3

\* Largest number of body rows of a sheet.
MaxRows == 2

----------------------------------------------------------------------------
\* Characters and strings.

DigitChars == <<"0", "1", "2", "3", "4", "5", "6", "7", "8", "9">>

IsDigit(c) == \E i \in 1..10 : DigitChars[i] = c

DigitVal(c) == (CHOOSE i \in 1..10 : DigitChars[i] = c) - 1

\* String.prototype.includes for a one-character needle.
Includes(s, c) == \E i \in 1..Len(s) : s[i] = c

\* Index of the first occurrence of c in s, or 0.
IndexOf(s, c) ==
  IF Includes(s, c) THEN CHOOSE i \in 1..Len(s) :
                           s[i] = c /\ \A j \in 1..(i - 1) : s[j] # c
  ELSE 0

RECURSIVE Split(_, _)
\* String.prototype.split for a one-character separator.
Split(s, c) ==
  LET i == IndexOf(s, c)
  IN  IF i = 0 THEN <<s>>
      ELSE <<SubSeq(s, 1, i - 1)>> \o Split(SubSeq(s, i + 1, Len(s)), c)

\* Length of the longest prefix of s made of digits.
DigitPrefixLen(s) ==
  IF \A i \in 1..Len(s) : IsDigit(s[i]) THEN Len(s)
  ELSE (CHOOSE i \in 1..Len(s) :
          ~IsDigit(s[i]) /\ \A j \in 1..(i - 1) : IsDigit(s[j])) - 1

RECURSIVE DigitsValue(_)
DigitsValue(s) ==
  IF s = <<>> THEN 0
  ELSE 10 * DigitsValue(SubSeq(s, 1, Len(s) - 1)) + DigitVal(s[Len(s)])

\* A JavaScript number that may be NaN.
NaN == [nan |-> TRUE, n |-> 0]

Num(n) == [nan |-> FALSE, n |-> n]

\* parseInt / parseFloat on the numerals of the model (integers, optional
\* minus sign): the value of the leading numeral, NaN when there is none.
ParseNumber(s) ==
  LET neg  == s # <<>> /\ s[1] = "-"
      body == IF neg THEN SubSeq(s, 2, Len(s)) ELSE s
      k    == DigitPrefixLen(body)
      v    == DigitsValue(SubSeq(body, 1, k))
  IN  IF k = 0 THEN NaN ELSE Num(IF neg THEN 0 - v ELSE v)

RECURSIVE NatToStr(_)
NatToStr(n) ==
  IF n < 10 THEN <<DigitChars[n + 1]>>
  ELSE NatToStr(n \div 10) \o <<DigitChars[(n % 10) + 1]>>

\* Number.prototype.toString for the integers of the model.
NumberToString(n) == IF n < 0 THEN <<"-">> \o NatToStr(0 - n) ELSE NatToStr(n)

----------------------------------------------------------------------------
\* Cells of the decoded sheet.

Absent == [t |-> "undefined", s |-> <<>>, n |-> 0]

Str(s) == [t |-> "string", s |-> s, n |-> 0]

NumCell(n) == [t |-> "number", s |-> <<>>, n |-> n]

DateCell(d) == [t |-> "date", s |-> <<>>, n |-> d]

\* row[i] of a JavaScript array (index from 0); undefined past the end.
Cell(row, i) == IF i + 1 <= Len(row) THEN row[i + 1] ELSE Absent

\* Truthiness of a cell value.
Truthy(c) ==
  CASE c.t = "undefined" -> FALSE
    [] c.t = "string"    -> c.s # <<>>
    [] c.t = "number"    -> c.n # 0
    [] OTHER             -> TRUE

\* value?.toString() of a cell: a string cell, or Absent for undefined.
CellToString(c) ==
  CASE c.t = "undefined" -> Absent
    [] c.t = "number"    -> Str(NumberToString(c.n))
    [] OTHER             -> Str(c.s)

----------------------------------------------------------------------------
\* Dates.  A parsed header is a Date with a time value (k = "date"), an
\* Invalid Date whose getTime() is NaN (k = "invalid"), or the plain object
\* that XLSX.SSF.parse_date_code returns, which has no getTime (k = "ssf").
\* Time values are counted in days (years of 365 days).

ValidDate(t) == [k |-> "date", t |-> t]

InvalidDate == [k |-> "invalid", t |-> 0]

SsfObject(v) == [k |-> "ssf", t |-> v]

\* Days of the year before the first day of month m.
DaysBeforeMonth(m) ==
  <<0, 31, 59, 90, 120, 151, 181, 212, 243, 273, 304, 334>>[m]

DayNumber(y, m, d) == y * 365 + DaysBeforeMonth(m) + d

AllDigits(s) == s # <<>> /\ \A i \in 1..Len(s) : IsDigit(s[i])

\* new Date(string) for the strings the model builds: "Y-M-D" with numeric
\* fields, month 1..12 and day 1..31, is that day; anything else is an
\* Invalid Date.
NewDate(s) ==
  LET parts == Split(s, "-")
  IN  IF /\ Len(parts) = 3
         /\ \A i \in 1..3 : AllDigits(parts[i])
         /\ DigitsValue(parts[2]) \in 1..12
         /\ DigitsValue(parts[3]) \in 1..31
      THEN ValidDate(DayNumber(DigitsValue(parts[1]), DigitsValue(parts[2]),
                               DigitsValue(parts[3])))
      ELSE InvalidDate

\* `${x}` of a destructured token: the text "undefined" for a missing one.
Token(parts, i) ==
  IF i <= Len(parts) THEN parts[i]
  ELSE <<"u", "n", "d", "e", "f", "i", "n", "e", "d">>

\* XLSX.SSF.parse_date_code: null outside the serial range, else an object.
ParseDateCode(v) ==
  IF v > 2958465 \/ v < 0 THEN [r |-> "null", d |-> InvalidDate]
  ELSE [r |-> "value", d |-> SsfObject(v)]

\* parseDate without the repair of lines 14-16: the day field is always used.
parseDateUnrepaired(c) ==
  IF c.t = "number" THEN ParseDateCode(c.n)
  ELSE IF c.t # "string" THEN [r |-> "throw", d |-> InvalidDate]
  ELSE IF Includes(c.s, "/")
    THEN LET parts == Split(c.s, "/")
         IN  [r |-> "value",
              d |-> NewDate(Token(parts, 3) \o <<"-">> \o Token(parts, 2)
                            \o <<"-">> \o Token(parts, 1))]
  ELSE LET date == NewDate(c.s)
       IN  IF date.k = "invalid" THEN [r |-> "null", d |-> InvalidDate]
           ELSE [r |-> "value", d |-> date]

\* parseDate(dateStr): r = "value" with the date d, r = "null", or r = "throw"
\* (a Date object has no includes method).  Called on truthy cells only.
parseDate(c) ==
  IF c.t = "number" THEN ParseDateCode(c.n)
  ELSE IF c.t # "string" THEN [r |-> "throw", d |-> InvalidDate]
  ELSE IF Includes(c.s, "/")
    THEN LET parts == Split(c.s, "/")
             day   == Token(parts, 1)
             month == Token(parts, 2)
             year  == Token(parts, 3)
             n     == ParseNumber(day)
         IN  IF ~n.nan /\ n.n > 31
             THEN [r |-> "value",
                   d |-> NewDate(year \o <<"-">> \o month \o <<"-", "0", "1">>)]
             ELSE [r |-> "value",
                   d |-> NewDate(year \o <<"-">> \o month \o <<"-">> \o day)]
  ELSE LET date == NewDate(c.s)
       IN  IF date.k = "invalid" THEN [r |-> "null", d |-> InvalidDate]
           ELSE [r |-> "value", d |-> date]

----------------------------------------------------------------------------
\* The static configuration.

\* PARAMETER_CATEGORIES ('@/types/blood-tests'): category name -> list of
\* the parameter names it holds, in the order of Object.entries.
PARAMETER_CATEGORIES ==
  << [name |-> <<"M", "e", "t">>, tests |-> << <<"G", "l", "u">> >>],
     [name |-> <<"L", "i", "v">>, tests |-> << <<"A", "L", "T">>, <<"A", "S", "T">> >>] >>

Other == <<"O", "t", "h", "e", "r">>

Unit == <<"U", "n", "i", "t">>

NotAvailable == <<"N", "/", "A">>

\* A value of categories[paramName]: a string, or a list of strings.
StringValue(s) == [k |-> "string", s |-> s, items |-> <<>>]

ListValue(items) == [k |-> "list", s |-> <<>>, items |-> items]

\* Array.prototype.includes on a list of strings.
ListIncludes(list, s) == \E i \in 1..Len(list) : list[i] = s

\* Object.entries(PARAMETER_CATEGORIES).find(([_, tests]) =>
\*   tests.includes(paramName))?.[1] || 'Other'
CategoryOf(paramName) ==
  LET hits == {i \in 1..Len(PARAMETER_CATEGORIES) :
                 ListIncludes(PARAMETER_CATEGORIES[i].tests, paramName)}
  IN  IF hits = {} THEN StringValue(Other)
      ELSE LET first == CHOOSE i \in hits : \A j \in hits : i <= j
           IN  ListValue(PARAMETER_CATEGORIES[first].tests)

----------------------------------------------------------------------------
\* Date-column discovery (lines 35-52).

RECURSIVE ScanHeader(_, _)
\* The loop of lines 39-49 from column i on: the columns pushed, in order.
ScanHeader(headerRow, i) ==
  IF i >= Len(headerRow) THEN <<>>
  ELSE LET dateStr == Cell(headerRow, i)
           rest    == ScanHeader(headerRow, i + 1)
       IN  IF Truthy(dateStr) /\ parseDate(dateStr).r = "value"
           THEN <<[index |-> i, date |-> parseDate(dateStr).d]>> \o rest
           ELSE rest

\* parseDate throws on some truthy header cell at a column >= 2.
HeaderThrows(headerRow) ==
  \E i \in 2..(Len(headerRow) - 1) :
    Truthy(Cell(headerRow, i)) /\ parseDate(Cell(headerRow, i)).r = "throw"

\* a.date.getTime() - b.date.getTime(), as SortCompare reads it: NaN is +0.
Compare(a, b) ==
  IF a.date.k = "date" /\ b.date.k = "date" THEN a.date.t - b.date.t ELSE 0

InsertAt(s, p, x) == SubSeq(s, 1, p) \o <<x>> \o SubSeq(s, p + 1, Len(s))

RECURSIVE LinearPos(_, _, _)
\* Insertion point of x in s, scanning from the right end (p elements kept
\* before x): x moves left past every element that compares greater.
LinearPos(s, x, p) ==
  IF p > 0 /\ Compare(s[p], x) > 0 THEN LinearPos(s, x, p - 1) ELSE p

RECURSIVE BinaryPos(_, _, _, _)
\* Insertion point of x in s by binary search between left and right.
BinaryPos(s, x, left, right) ==
  IF left >= right THEN left
  ELSE LET mid == left + ((right - left) \div 2)
       IN  IF Compare(x, s[mid + 1]) < 0 THEN BinaryPos(s, x, left, mid)
           ELSE BinaryPos(s, x, mid + 1, right)

RECURSIVE InsertionSort(_, _)
\* Array.prototype.sort by insertion; binary chooses the search.
InsertionSort(s, binary) ==
  IF s = <<>> THEN <<>>
  ELSE LET init == InsertionSort(SubSeq(s, 1, Len(s) - 1), binary)
           x    == s[Len(s)]
           p    == IF binary THEN BinaryPos(init, x, 0, Len(init))
                   ELSE LinearPos(init, x, Len(init))
       IN  InsertAt(init, p, x)

\* The orders dateColumns.sort may leave: with a consistent comparator the
\* stable ascending order; with an Invalid Date among the columns the order
\* is implementation-defined, here the outcome of either insertion sort.
SortOutcomes(s) == {InsertionSort(s, FALSE), InsertionSort(s, TRUE)}

\* The comparator is called, and calls getTime on an object without it.
SortThrows(s) == Len(s) >= 2 /\ \E i \in 1..Len(s) : s[i].date.k = "ssf"

----------------------------------------------------------------------------
\* Row classification and series extraction (lines 60-90).

\* Objects keyed by parameter name are functions on the set of their keys.
EmptyObject == [x \in {} |-> 0]

Put(obj, key, val) ==
  [x \in (DOMAIN obj) \cup {key} |-> IF x = key THEN val ELSE obj[x]]

\* Set.prototype.add on a Set kept in insertion order.
SetAdd(s, x) == IF \E i \in 1..Len(s) : s[i] = x THEN s ELSE Append(s, x)

\* row[0]?.toString()
ParamNameOf(row) == CellToString(Cell(row, 0))

\* row[1]?.toString() || ''
UnitOf(row) == CellToString(Cell(row, 1)).s

\* The test of line 66 without its test for "(".
SkippedUnlessParenthesis(row) ==
  LET paramName == ParamNameOf(row)
  IN  ~Truthy(paramName) \/ paramName.s = Unit

\* The test of line 66: an empty row, a repeated header or a category header.
Skipped(row) ==
  LET paramName == ParamNameOf(row)
  IN  \/ ~Truthy(paramName)
      \/ paramName.s = Unit
      \/ Includes(paramName.s, "(")

\* typeof value === 'number' ? value : parseFloat(value)
NumValue(value) ==
  CASE value.t = "number" -> Num(value.n)
    [] value.t = "string" -> ParseNumber(value.s)
    [] OTHER              -> NaN

\* The test of line 83 without the isNaN test of line 85.
AcceptedWithoutNaNTest(value) ==
  value.t # "undefined" /\ ~(value.t = "string" /\ value.s = <<>>)

\* The tests of lines 83 and 85.
Accepted(value) ==
  /\ value.t # "undefined"
  /\ ~(value.t = "string" /\ value.s = <<>>)
  /\ ~NumValue(value).nan

RECURSIVE Observations(_, _)
\* The forEach of lines 81-89: what one row pushes, in the order of cols.
Observations(row, cols) ==
  IF cols = <<>> THEN <<>>
  ELSE LET value == Cell(row, Head(cols).index)
           rest  == Observations(row, Tail(cols))
       IN  IF Accepted(value)
           THEN <<[date |-> Head(cols).date, value |-> NumValue(value).n]>> \o rest
           ELSE rest

----------------------------------------------------------------------------
\* Wide-format reconstruction (lines 97-107).

\* d.date.getTime() === date.getTime()
SameTime(a, b) == a.k = "date" /\ b.k = "date" /\ a.t = b.t

\* paramData.find(d => d.date.getTime() === date.getTime()): the index of
\* the first match, or 0.
FindIndex(paramData, date) ==
  IF \E i \in 1..Len(paramData) : SameTime(paramData[i].date, date)
  THEN CHOOSE i \in 1..Len(paramData) :
         /\ SameTime(paramData[i].date, date)
         /\ \A j \in 1..(i - 1) : ~SameTime(paramData[j].date, date)
  ELSE 0

\* The fields of the DataPoint of one date column: one per parameter that has
\* a matching observation.
DataPointOf(date, names, data) ==
  LET present == {names[i] : i \in {j \in 1..Len(names) :
                                      FindIndex(data[names[j]], date) # 0}}
  IN  [date   |-> date,
       fields |-> [q \in present |-> data[q][FindIndex(data[q], date)].value]]

\* The callback of find runs and calls getTime on an object without it.
ChartThrows(cols, names, data) ==
  \E c \in 1..Len(cols) : \E i \in 1..Len(names) :
    /\ data[names[i]] # <<>>
    /\ \/ cols[c].date.k = "ssf"
       \/ LET m == FindIndex(data[names[i]], cols[c].date)
              n == IF m = 0 THEN Len(data[names[i]]) ELSE m
          IN  \E j \in 1..n : data[names[i]][j].date.k = "ssf"

----------------------------------------------------------------------------
\* Metric computation (lines 110-126).

MetricOf(param, data, unitOf, categoryOf) ==
  LET paramData == data[param]
      n         == Len(paramData)
      trend     == IF n > 1 THEN paramData[n].value - paramData[n - 1].value ELSE 0
  IN  [name     |-> param,
       value    |-> IF n > 0 THEN NumberToString(paramData[n].value) ELSE NotAvailable,
       unit     |-> unitOf[param],
       trend    |-> trend,
       category |-> categoryOf[param]]

----------------------------------------------------------------------------
\* The sheets of the model: rawData as sheet_to_json(sheet, {header: 1})
\* returns it, row 0 the header row.

Glu == <<"G", "l", "u">>

Zinc == <<"Z", "n">>

MgDl == <<"m", "g">>

\* Header cells at a column >= 2.
IsoJul4 == Str(<<"2", "0", "1", "9", "-", "0", "7", "-", "0", "4">>)

Slash15Jun == Str(<<"1", "5", "/", "6", "/", "2", "0", "1", "9">>)

Slash1May == Str(<<"1", "/", "5", "/", "2", "0", "1", "9">>)

Slash36May == Str(<<"3", "6", "/", "5", "/", "2", "0", "1", "9">>)

SlashNA == Str(<<"n", "/", "a">>)

TextNotes == Str(<<"N", "o", "t", "e", "s">>)

HeaderCells ==
  { Absent, IsoJul4, Slash15Jun, Slash1May, Slash36May, SlashNA, TextNotes,
    NumCell(43586), NumCell(0 - 1), DateCell(DayNumber(2019, 5, 1)) }

\* Header cells that are strings naming a real day, in date order.
PlainDates == <<Slash1May, Slash15Jun, IsoJul4>>

\* Cells of column 0.
NameCells ==
  { Absent, Str(<<>>), Str(Unit), Str(<<"L", "P", " ", "(", "F", ")">>),
    Str(Glu), Str(Zinc), Str(<<"A", "L", "T">>), NumCell(0) }

\* Cells under a date column.
BodyCells ==
  { Absent, Str(<<>>), Str(<<"a", "b", "c">>), NumCell(5), Str(<<"7">>) }


RowsOver(names, unitCells, cells) ==
  { <<n, u>> \o c : n \in names, u \in unitCells, c \in [1..MaxCols -> cells] }

\* A row with the number j under the j-th date column.
FullRow(name) == <<Str(name), Str(MgDl)>> \o [j \in 1..MaxCols |-> NumCell(j)]

\* A row with 12 under the last date column and nothing else.
LastOnlyRow(name) ==
  <<Str(name), Str(MgDl)>> \o
    [j \in 1..MaxCols |-> IF j = MaxCols THEN NumCell(12) ELSE Absent]

BlankRow(name) == <<Str(name), Absent>>

BodiesOver(rows) == UNION { [1..k -> rows] : k \in 0..MaxRows }

\* The header row whose j-th date column is cells[j].
HeaderRow(cells) == <<Str(<<"T", "e", "s", "t">>), Str(Unit)>> \o cells

\* Real days in ascending order, and the same in descending order.
Ascending == [j \in 1..MaxCols |-> PlainDates[((j - 1) % Len(PlainDates)) + 1]]

Descending == [j \in 1..MaxCols |-> Ascending[MaxCols + 1 - j]]

\* Every kind of header cell over no row, a row of numbers and a blank row.
DateSheet(sheet) ==
  \E h \in [1..MaxCols -> HeaderCells] :
    \E b \in {<<>>, <<FullRow(Glu)>>, <<BlankRow(Glu)>>} :
      sheet = <<HeaderRow(h)>> \o b

\* Every kind of column-0 cell, with and without a unit, under one header.
NameSheet(sheet) ==
  \E b \in BodiesOver(RowsOver(NameCells, {Absent, Str(MgDl)}, {NumCell(5)})) :
    sheet = <<HeaderRow(Ascending)>> \o b

\* Every kind of body cell in one row, among plain rows, under date columns
\* in ascending and in descending order.
CellSheet(sheet) ==
  \E h \in {Ascending, Descending} :
    \E b \in BodiesOver({LastOnlyRow(Glu), FullRow(Zinc)}) :
      \E i \in DOMAIN b :
        \E r \in RowsOver({Str(Glu)}, {Str(MgDl)}, BodyCells) :
          sheet = <<HeaderRow(h)>> \o [b EXCEPT ![i] = r]

----------------------------------------------------------------------------
\* processExcelData as a state machine: one action per step of the function.

\* What the try block throws: the TypeErrors of the engine and the Error of
\* line 93.
NoError == "none"

NoHeaderRow == "TypeError: headerRow is undefined"

NoIncludes == "TypeError: dateStr.includes is not a function"

NoGetTime == "TypeError: getTime is not a function"

NoValidData == "Error: No valid data found in the file"

\* throw: control passes to the catch clause with the value thrown.
Throw(e) == pc' = "catch" /\ error' = e

NoResult == [status |-> "pending", chartData |-> <<>>,
             calculatedMetrics |-> <<>>, parameters |-> <<>>]

Init ==
  /\ \/ rawData = <<>>
     \/ DateSheet(rawData)
     \/ NameSheet(rawData)
     \/ CellSheet(rawData)
  /\ pc = "header"
  /\ dateColumns = <<>>
  /\ rowIndex = 1
  /\ params = <<>>
  /\ testData = EmptyObject
  /\ units = EmptyObject
  /\ categories = EmptyObject
  /\ chartData = <<>>
  /\ calculatedMetrics = <<>>
  /\ error = NoError
  /\ result = NoResult

\* Lines 35-49: read the header row and collect the date columns.
DiscoverDateColumns ==
  /\ pc = "header"
  /\ IF rawData = <<>>
     THEN Throw(NoHeaderRow) /\ UNCHANGED dateColumns
     ELSE IF HeaderThrows(rawData[1])
     THEN Throw(NoIncludes) /\ UNCHANGED dateColumns
     ELSE /\ dateColumns' = ScanHeader(rawData[1], 2)
          /\ pc' = "sort"
          /\ UNCHANGED error
  /\ UNCHANGED <<rawData, rowIndex, params, testData, units, categories,
                 chartData, calculatedMetrics, result>>

\* Line 52: sort the date columns; the row loop starts (or ends) after it.
SortDateColumns ==
  /\ pc = "sort"
  /\ IF SortThrows(dateColumns)
     THEN Throw(NoGetTime) /\ UNCHANGED dateColumns
     ELSE /\ dateColumns' \in SortOutcomes(dateColumns)
          /\ pc' = IF rowIndex < Len(rawData) THEN "rows" ELSE "check"
          /\ UNCHANGED error
  /\ UNCHANGED <<rawData, rowIndex, params, testData, units, categories,
                 chartData, calculatedMetrics, result>>

\* Lines 60-90: one iteration of the row loop.
ProcessRow ==
  /\ pc = "rows"
  /\ rowIndex < Len(rawData)
  /\ LET row       == rawData[rowIndex + 1]
         paramName == ParamNameOf(row).s
     IN  IF Skipped(row)
         THEN UNCHANGED <<params, testData, units, categories>>
         ELSE /\ params' = SetAdd(params, paramName)
              /\ units' = Put(units, paramName, UnitOf(row))
              /\ categories' = Put(categories, paramName, CategoryOf(paramName))
              /\ testData' = Put(testData, paramName, Observations(row, dateColumns))
  /\ rowIndex' = rowIndex + 1
  /\ pc' = IF rowIndex + 1 < Len(rawData) THEN "rows" ELSE "check"
  /\ UNCHANGED <<rawData, dateColumns, chartData, calculatedMetrics, error,
                 result>>

\* Lines 92-94: no parameter or no date column is an error.
CheckData ==
  /\ pc = "check"
  /\ IF Len(params) = 0 \/ Len(dateColumns) = 0
     THEN Throw(NoValidData)
     ELSE pc' = "chart" /\ UNCHANGED error
  /\ UNCHANGED <<rawData, dateColumns, rowIndex, params, testData, units,
                 categories, chartData, calculatedMetrics, result>>

\* Lines 97-107: one DataPoint per date column.
BuildChartData ==
  /\ pc = "chart"
  /\ IF ChartThrows(dateColumns, params, testData)
     THEN Throw(NoGetTime) /\ UNCHANGED chartData
     ELSE /\ chartData' = [c \in 1..Len(dateColumns) |->
                             DataPointOf(dateColumns[c].date, params, testData)]
          /\ pc' = "metrics"
          /\ UNCHANGED error
  /\ UNCHANGED <<rawData, dateColumns, rowIndex, params, testData, units,
                 categories, calculatedMetrics, result>>

\* Lines 110-126: one Metric per parameter.
CalculateMetrics ==
  /\ pc = "metrics"
  /\ calculatedMetrics' = [i \in 1..Len(params) |->
                             MetricOf(params[i], testData, units, categories)]
  /\ pc' = "return"
  /\ UNCHANGED <<rawData, dateColumns, rowIndex, params, testData, units,
                 categories, chartData, error, result>>

\* Lines 128-132: the value returned.
Return ==
  /\ pc = "return"
  /\ result' = [status |-> "ok", chartData |-> chartData,
                calculatedMetrics |-> calculatedMetrics, parameters |-> params]
  /\ pc' = "done"
  /\ UNCHANGED <<rawData, dateColumns, rowIndex, params, testData, units,
                 categories, chartData, calculatedMetrics, error>>

\* Lines 133-136: whatever was thrown is replaced by one Error; nothing is
\* returned.
Catch ==
  /\ pc = "catch"
  /\ result' = [NoResult EXCEPT !.status = "error"]
  /\ pc' = "failed"
  /\ UNCHANGED <<rawData, dateColumns, rowIndex, params, testData, units,
                 categories, chartData, calculatedMetrics, error>>

Next ==
  \/ DiscoverDateColumns
  \/ SortDateColumns
  \/ ProcessRow
  \/ CheckData
  \/ BuildChartData
  \/ CalculateMetrics
  \/ Return
  \/ Catch

Spec == Init /\ [][Next]_vars

----------------------------------------------------------------------------
\* Properties.

Succeeded == pc = "done" /\ result.status = "ok"

Failed == pc = "failed" /\ result.status = "error"

\* The header row of the sheet read.
HeaderOf(sheet) == sheet[1]

\* Dates a and b are days, and b is the day of a or an earlier one.
NotAfter(b, a) == a.k = "date" /\ b.k = "date" /\ b.t <= a.t

\* Dates a and b are days, and a is a day after the day of b.
StrictlyAfter(a, b) == a.k = "date" /\ b.k = "date" /\ a.t > b.t

\* C1: whenever processExcelData succeeds, the chartData it returns is sorted
\* ascending by date and no two of its DataPoints carry the same date, also
\* when two or more header columns parse to the same date.
C1_SortedDistinctDates ==
  Succeeded =>
    \A i, j \in 1..Len(result.chartData) :
      i < j => ~NotAfter(result.chartData[j].date, result.chartData[i].date)

\* What the sheet says, read without the program: a column-0 cell that names
\* no parameter, and a body cell that holds a number.
NamesNothing(c) ==
  \/ c.t = "undefined"
  \/ c.t = "string" /\ (c.s = <<>> \/ c.s = Unit \/ \E i \in 1..Len(c.s) : c.s[i] = "(")

HoldsNumber(c) ==
  \/ c.t = "number"
  \/ c.t = "string" /\ c.s # <<>> /\ IsDigit(c.s[1])

NumberHeld(c) == IF c.t = "number" THEN c.n ELSE DigitsValue(SubSeq(c.s, 1, DigitPrefixLen(c.s)))

\* The date columns (positions in dateColumns) under which a row holds a number.
Coverage(row) ==
  {k \in 1..Len(dateColumns) : HoldsNumber(Cell(row, dateColumns[k].index))}

\* The series kept for a name holds the number a row has under date column k.
SeriesHolds(name, row, k) ==
  \E o \in 1..Len(testData[name]) :
    /\ testData[name][o].date = dateColumns[k].date
    /\ testData[name][o].value = NumberHeld(Cell(row, dateColumns[k].index))

\* C2: when two body rows carry the same parameter name and their numeric
\* cells cover disjoint date columns, the one series kept for that name
\* contains the observations of both rows, in date order: the later row does
\* not discard the observations of the earlier one.
C2_DuplicateRowsMerge ==
  Succeeded =>
    \A r1, r2 \in 2..Len(rawData) :
      ( /\ r1 < r2
        /\ ~NamesNothing(rawData[r1][1])
        /\ CellToString(rawData[r1][1]) = CellToString(rawData[r2][1])
        /\ Coverage(rawData[r1]) \cap Coverage(rawData[r2]) = {} )
      => LET name == CellToString(rawData[r1][1]).s
         IN  /\ \A k \in Coverage(rawData[r1]) : SeriesHolds(name, rawData[r1], k)
             /\ \A k \in Coverage(rawData[r2]) : SeriesHolds(name, rawData[r2], k)
             /\ \A i, j \in 1..Len(testData[name]) :
                  i < j => ~StrictlyAfter(testData[name][i].date, testData[name][j].date)

\* A header cell that names a day: a Date, a serial number of the sheet's
\* date range, or text "D/M/Y" or "Y-M-D" with numeric fields and a month.
NamesDay(c) ==
  \/ c.t = "date"
  \/ c.t = "number" /\ c.n >= 0
  \/ /\ c.t = "string"
     /\ LET p == IF Includes(c.s, "/") THEN Split(c.s, "/") ELSE Split(c.s, "-")
        IN  /\ Len(p) = 3
            /\ \A i \in 1..3 : AllDigits(p[i])
            /\ DigitsValue(p[2]) \in 1..12

\* C3: a header cell at a column >= 2 that cannot be parsed as a date,
\* whatever its type, is left out of dateColumns and never makes the call
\* fail (no TypeError comes of it); every date column kept carries a valid
\* date, never an Invalid Date.
C3_UnparsableHeaderDropped ==
  (pc # "header" /\ rawData # <<>>) =>
    LET columns == 2..(Len(HeaderOf(rawData)) - 1)
    IN  /\ \A k \in 1..Len(dateColumns) : dateColumns[k].date.k # "invalid"
        /\ \A i \in columns :
             ~NamesDay(Cell(HeaderOf(rawData), i))
               => \A k \in 1..Len(dateColumns) : dateColumns[k].index # i
        /\ (\A i \in columns : ~NamesDay(Cell(HeaderOf(rawData), i)))
             => error \notin {NoIncludes, NoGetTime}

\* The category of the lookup table whose list holds the name, else "Other".
CategoryNameFor(name) ==
  LET hits == {i \in 1..Len(PARAMETER_CATEGORIES) :
                 \E j \in 1..Len(PARAMETER_CATEGORIES[i].tests) :
                   PARAMETER_CATEGORIES[i].tests[j] = name}
  IN  IF hits = {} THEN Other
      ELSE PARAMETER_CATEGORIES[CHOOSE i \in hits : \A j \in hits : i <= j].name

\* C4: the category of every metric is the name of the lookup-table category
\* whose list contains the parameter name, and "Other" when none does.
C4_CategoryIsTableKey ==
  Succeeded =>
    \A i \in 1..Len(result.calculatedMetrics) :
      LET m == result.calculatedMetrics[i]
      IN  m.category.k = "string" /\ m.category.s = CategoryNameFor(m.name)

\* The sheet has a header cell at a column >= 2 that names a day.
HasDateColumn(sheet) ==
  /\ sheet # <<>>
  /\ \E i \in 2..(Len(HeaderOf(sheet)) - 1) : NamesDay(Cell(HeaderOf(sheet), i))

\* The sheet has a body row whose column-0 cell names a parameter.
HasParameterRow(sheet) ==
  \E r \in 2..Len(sheet) : ~NamesNothing(Cell(sheet[r], 0))

\* C5: the call fails, returning nothing, whenever no date column or no
\* parameter was found (a sheet of a header row without dates among them),
\* and it does not fail for a sheet with at least one valid date column and
\* at least one parameter row, even one without numeric cells.
C5_FailsExactlyWithoutData ==
  pc \in {"done", "failed"} =>
    /\ (Len(dateColumns) = 0 \/ Len(params) = 0)
         => Failed /\ result = [NoResult EXCEPT !.status = "error"]
    /\ (HasDateColumn(rawData) /\ HasParameterRow(rawData)) => Succeeded

\* C6: whatever the order of the date columns in the sheet, the observations
\* behind every metric are in chronological order, so that trend is the
\* value of the latest-dated observation minus that of the one before it;
\* trend is 0 with fewer than two observations.
C6_ChronologicalTrend ==
  Succeeded =>
    \A i \in 1..Len(result.calculatedMetrics) :
      LET m      == result.calculatedMetrics[i]
          series == testData[m.name]
          n      == Len(series)
      IN  /\ \A a, b \in 1..n :
               a < b => ~StrictlyAfter(series[a].date, series[b].date)
          /\ n >= 2 => m.trend = series[n].value - series[n - 1].value
          /\ n < 2 => m.trend = 0

\* A header cell "D/M/Y" with numeric fields, a month, and a day field over 31.
DayOverflows(c) ==
  /\ c.t = "string"
  /\ LET p == Split(c.s, "/")
     IN  /\ Len(p) = 3
         /\ \A i \in 1..3 : AllDigits(p[i])
         /\ DigitsValue(p[1]) > 31
         /\ DigitsValue(p[2]) \in 1..12

\* The first day of the month and year that the cell's second and third
\* fields give.
FirstOfItsMonth(c) ==
  LET p == Split(c.s, "/")
  IN  ValidDate(DayNumber(DigitsValue(p[3]), DigitsValue(p[2]), 1))

\* C7: a slash-delimited header whose first numeric field exceeds 31, such as
\* "36/5/2019", is not rejected: its column is a date column dated the first
\* day of the month and year of its second and third fields (1 May 2019).
C7_OverflowingDayRepaired ==
  (pc # "header" /\ error \notin {NoHeaderRow, NoIncludes}) =>
    \A i \in 2..(Len(HeaderOf(rawData)) - 1) :
      DayOverflows(Cell(HeaderOf(rawData), i))
        => \E k \in 1..Len(dateColumns) :
             /\ dateColumns[k].index = i
             /\ dateColumns[k].date = FirstOfItsMonth(Cell(HeaderOf(rawData), i))

\* The call returned with a DataPoint dated 1 May 2019 that comes from a
\* header cell "36/5/2019".
C7_Witness ==
  /\ Succeeded
  /\ \E i \in 2..(Len(HeaderOf(rawData)) - 1) : Cell(HeaderOf(rawData), i) = Slash36May
  /\ \E c \in 1..Len(result.chartData) :
       result.chartData[c].date = ValidDate(DayNumber(2019, 5, 1))

\* A body cell that is absent, the empty string or text that is no number.
Rejected(c) ==
  \/ c.t = "undefined"
  \/ c.t = "string" /\ (c.s = <<>> \/ ~IsDigit(c.s[1]))

RECURSIVE SparseSeries(_, _)
\* The observations of a row from date column k on, the rejected cells left
\* out: one per remaining cell, dated by its column, in column order.
SparseSeries(row, k) ==
  IF k > Len(dateColumns) THEN <<>>
  ELSE LET c == Cell(row, dateColumns[k].index)
       IN  (IF Rejected(c) THEN <<>>
            ELSE <<[date |-> dateColumns[k].date, value |-> NumberHeld(c)]>>)
           \o SparseSeries(row, k + 1)

\* C8: a body cell under a date column that is absent, the empty string or
\* non-numeric text yields no observation and no placeholder and does not
\* make the call fail; the other cells of the row and the other parameters
\* are processed as if the cell were not there.
C8_RejectedCellsLeaveNoTrace ==
  [][ pc = "rows" =>
        LET row == rawData[rowIndex + 1]
            name == CellToString(Cell(row, 0)).s
        IN  /\ pc' \in {"rows", "check"}
            /\ error' = NoError
            /\ IF NamesNothing(Cell(row, 0)) THEN testData' = testData
               ELSE /\ testData'[name] = SparseSeries(row, 1)
                    /\ \A q \in (DOMAIN testData) \ {name} :
                         q \in DOMAIN testData' /\ testData'[q] = testData[q]
    ]_vars

\* A row with a text cell, an empty-string cell and a number under its date
\* columns was processed and left exactly one observation, and the call
\* returned.
C8_Witness ==
  /\ Succeeded
  /\ \E r \in 2..Len(rawData) :
       LET row == rawData[r]
           name == CellToString(Cell(row, 0)).s
       IN  /\ ~NamesNothing(Cell(row, 0))
           /\ \E i, j, k \in 2..(Len(HeaderOf(rawData)) - 1) :
                /\ Cell(row, i) = Str(<<"a", "b", "c">>)
                /\ Cell(row, j) = Str(<<>>)
                /\ Cell(row, k).t = "number"
           /\ Len(testData[name]) = 1
           /\ \E c \in 1..Len(result.chartData) :
                name \in DOMAIN result.chartData[c].fields

\* C9: the value of every metric is "N/A" if and only if the parameter has
\* no observation; otherwise it is the string form of the value of its last
\* observation, which is its most recent one.
C9_ValueIsLatestOrNotAvailable ==
  Succeeded =>
    \A i \in 1..Len(result.calculatedMetrics) :
      LET m      == result.calculatedMetrics[i]
          series == testData[m.name]
          n      == Len(series)
      IN  /\ (m.value = NotAvailable) <=> (n = 0)
          /\ n > 0 =>
               /\ ParseNumber(m.value) = Num(series[n].value)
               /\ \A o \in 1..n : ~StrictlyAfter(series[o].date, series[n].date)

RECURSIVE FirstEncounters(_, _)
\* The names of the rows from row r on that name a parameter, each once, in
\* the order of first encounter, after the names in seen.
FirstEncounters(seen, r) ==
  IF r > Len(rawData) THEN seen
  ELSE LET c    == Cell(rawData[r], 0)
           name == CellToString(c).s
       IN  IF NamesNothing(c) \/ \E i \in 1..Len(seen) : seen[i] = name
           THEN FirstEncounters(seen, r + 1)
           ELSE FirstEncounters(Append(seen, name), r + 1)

\* C10: a body row is left out of the parameter names, the metrics and the
\* DataPoint fields exactly when its column-0 cell is empty or absent, is
\* "Unit", or contains "("; the column-0 value of every other row is in the
\* parameter names once, in order of first encounter, with one metric per
\* name in the same order.
C10_ParameterNames ==
  Succeeded =>
    /\ result.parameters = FirstEncounters(<<>>, 2)
    /\ Len(result.calculatedMetrics) = Len(result.parameters)
    /\ \A i \in 1..Len(result.parameters) :
         result.calculatedMetrics[i].name = result.parameters[i]
    /\ \A c \in 1..Len(result.chartData) :
         \A q \in DOMAIN result.chartData[c].fields :
           \E i \in 1..Len(result.parameters) : result.parameters[i] = q

\* The call returned for a sheet with a category header row "LP (F)" left
\* out and a parameter row kept.
C10_Witness ==
  /\ Succeeded
  /\ \E r \in 2..Len(rawData) :
       /\ Cell(rawData[r], 0).t = "string"
       /\ Includes(Cell(rawData[r], 0).s, "(")
  /\ Len(result.parameters) = 1
  /\ \E c \in 1..Len(result.chartData) : result.chartData[c].fields # EmptyObject

\* No two body rows that name a parameter name the same one.
UniqueNames ==
  \A r1, r2 \in 2..Len(rawData) :
    ( /\ r1 < r2
      /\ ~NamesNothing(Cell(rawData[r1], 0))
      /\ ~NamesNothing(Cell(rawData[r2], 0)) )
    => CellToString(Cell(rawData[r1], 0)) # CellToString(Cell(rawData[r2], 0))

\* The DataPoint at position c of the chart data has the field of the
\* parameter of row r exactly when the row holds a number in the sheet column
\* of date column c, and then the field is that number.
FieldFromOwnColumn(c, r) ==
  LET name   == CellToString(Cell(rawData[r], 0)).s
      cell   == Cell(rawData[r], dateColumns[c].index)
      fields == result.chartData[c].fields
  IN  /\ (name \in DOMAIN fields) <=> HoldsNumber(cell)
      /\ (name \in DOMAIN fields /\ HoldsNumber(cell))
           => fields[name] = NumberHeld(cell)

\* C11: when parameter names are unique across body rows, every returned
\* DataPoint dated a day (it is built from one date column) has a field for
\* a parameter if and only if the parameter's row has an accepted numeric
\* cell in that DataPoint's own source column, and the field's value is that
\* cell's number; this holds also when two date columns parse to the same
\* date.
C11_FieldsFromOwnColumn ==
  (Succeeded /\ UniqueNames) =>
    \A c \in 1..Len(result.chartData) :
      dateColumns[c].date.k = "date" =>
        \A r \in 2..Len(rawData) :
          ~NamesNothing(Cell(rawData[r], 0)) => FieldFromOwnColumn(c, r)

====
